---- MODULE Spec2Model ----
(***************************************************************************)
(* The REIT / FRED panel pipeline: fetch_reit_data.py cleans the entity    *)
(* panel, fetch_fred_data.py cleans the indicator series, and              *)
(* merge_final_panel.py aligns both to month-end, left-joins them on the   *)
(* date, validates and saves the panel.                                    *)
(*                                                                         *)
(* A table is [cols |-> set of column names, rows |-> sequence of rows];   *)
(* a row is a function from the table's columns to cells.  A cell is NaN   *)
(* (pandas' missing value, NaT for a date), Num(n), Str(s) or Date(m, d).  *)
(* Returns are kept in hundredths (usdret 0.05 is Num(5)).  Months are     *)
(* counted from January 2020 (month 1).                                    *)
(***************************************************************************)
EXTENDS Integers, Sequences, FiniteSets, TLC

\* ------------------------------------------------------------------ bounds
MaxReitRows == 2
MaxFredRows == 2
\* rows of a monthly indicator table
MaxLongRows == 5

\* ------------------------------------------------------- program constants
\* usdret > 5.0 and usdret < -1.0 are outliers (hundredths)
RetMax == 500
RetMin == -100
\* df.ffill(limit=2)
FfillLimit == 2
\* pct_change(12), shift(1), shift(3)
YoYPeriods == 12
Lag1 == 1
Lag3 == 3

\* ------------------------------------------------------------------- cells
NaN == [nan |-> TRUE]
Num(n) == [num |-> n]
Str(s) == [str |-> s]
Date(m, d) == [m |-> m, d |-> d]
IsNaN(x) == x = NaN
IsNum(x) == DOMAIN x = {"num"}
IsStr(x) == DOMAIN x = {"str"}
IsDate(x) == DOMAIN x = {"m", "d"}

\* None (a Python variable holding no table) and an absent file
None == [none |-> TRUE]
NoFile == [nofile |-> TRUE]

Table(cols, rows) == [cols |-> cols, rows |-> rows]

\* ---------------------------------------------------------------- calendar
Year(m) == 2020 + ((m - 1) \div 12)
MonthOfYear(m) == ((m - 1) % 12) + 1
IsLeap(y) == (y % 4 = 0 /\ y % 100 # 0) \/ y % 400 = 0
DaysInMonth(m) ==
    LET k == MonthOfYear(m)
    IN  IF k = 2 THEN (IF IsLeap(Year(m)) THEN 29 ELSE 28)
        ELSE IF k \in {4, 6, 9, 11} THEN 30 ELSE 31

\* a normalisation that leaves the day of the month as it is
ToMonthEndKeepDay(x) == x

\* x.dt.to_period('M').dt.to_timestamp('M'): the last day of x's month
ToMonthEnd(x) == IF IsDate(x) THEN Date(x.m, DaysInMonth(x.m)) ELSE x

\* ------------------------------------------------------------ table helpers
RECURSIVE PickFrom(_, _, _)
PickFrom(rows, keep, i) ==
    IF i > Len(rows) THEN <<>>
    ELSE (IF i \in keep THEN <<rows[i]>> ELSE <<>>) \o PickFrom(rows, keep, i + 1)

\* df.dropna(subset=subset)
DropNa(rows, subset) ==
    PickFrom(rows, {i \in 1..Len(rows) : \A c \in subset : ~IsNaN(rows[i][c])}, 1)

\* pd.to_datetime(x, errors='coerce'): an unparseable date becomes NaT
ToDatetimeCoerce(x) == IF IsDate(x) THEN x ELSE NaN

\* pd.to_numeric(x, errors='coerce'): an unparseable number becomes NaN
ToNumericCoerce(x) == IF IsNum(x) THEN x ELSE NaN

\* str.upper() on the tickers of the model
Upper(s) == IF s = "aaa" THEN "AAA" ELSE IF s = "bbb" THEN "BBB" ELSE s

\* Python's string order on the tickers of the model
TickerRank(s) == CASE s = "AAA" -> 1 [] s = "BBB" -> 2 [] s = "aaa" -> 3 [] s = "bbb" -> 4

\* ------------------------------------------------------ fetch_reit_data.py
ReitCols == {"ticker", "date", "usdret"}

IsOutlier(r) ==
    IsNum(r.usdret) /\ (r.usdret.num > RetMax \/ r.usdret.num < RetMin)

InRange(r) ==
    IsNum(r.usdret) /\ r.usdret.num <= RetMax /\ r.usdret.num >= RetMin

\* df.drop_duplicates(subset=keys, keep='first')
DropDuplicates(rows, keys) ==
    PickFrom(rows,
             {i \in 1..Len(rows) :
                ~\E j \in 1..(i - 1) : \A c \in keys : rows[j][c] = rows[i][c]},
             1)

clean_reit_data(df) ==
    LET r1 == DropNa(df.rows, {"ticker", "date", "usdret"})
        r2 == [i \in 1..Len(r1) |-> [r1[i] EXCEPT !.date = ToDatetimeCoerce(@)]]
        invalid_dates == Cardinality({i \in 1..Len(r2) : IsNaN(r2[i].date)})
        r3 == IF invalid_dates > 0 THEN DropNa(r2, {"date"}) ELSE r2
        r4 == [i \in 1..Len(r3) |-> [r3[i] EXCEPT !.usdret = ToNumericCoerce(@)]]
        outliers == Cardinality({i \in 1..Len(r4) : IsOutlier(r4[i])})
        r5 == IF outliers > 0
              THEN PickFrom(r4, {i \in 1..Len(r4) : InRange(r4[i])}, 1)
              ELSE r4
        r6 == [i \in 1..Len(r5) |-> [r5[i] EXCEPT !.ticker = Str(Upper(@.str))]]
        duplicates == Len(r6) - Len(DropDuplicates(r6, {"ticker", "date"}))
        r7 == IF duplicates > 0 THEN DropDuplicates(r6, {"ticker", "date"}) ELSE r6
    IN  Table(df.cols, r7)

\* ------------------------------------------------------ fetch_fred_data.py
\* df.ffill(limit=limit): every column, the date included
Ffill(rows, limit) ==
    [i \in 1..Len(rows) |->
        [c \in DOMAIN rows[i] |->
            IF ~IsNaN(rows[i][c]) THEN rows[i][c]
            ELSE LET prior == {j \in 1..(i - 1) : ~IsNaN(rows[j][c])}
                 IN  IF prior = {} THEN NaN
                     ELSE LET j == CHOOSE k \in prior : \A l \in prior : l <= k
                          IN  IF i - j <= limit THEN rows[j][c] ELSE NaN]]

\* (cur / base - 1) * 100, kept as an exact fraction
Pct(cur, base) == [pct_num |-> (cur - base) * 100, pct_den |-> base]

\* df[col].pct_change(periods) * 100 on a column without missing values
PctChange(rows, col, periods, i) ==
    IF i > periods THEN Pct(rows[i][col].num, rows[i - periods][col].num) ELSE NaN

\* df[col].shift(periods)
Shift(rows, col, periods, i) ==
    IF i > periods THEN rows[i - periods][col] ELSE NaN

\* the rows after the month-end normalisation, ffill(limit=2) and the first
\* dropna, before the derived fields are added
FilledRows(df) ==
    DropNa(Ffill([i \in 1..Len(df.rows) |-> [df.rows[i] EXCEPT !.date = ToMonthEnd(@)]],
                 FfillLimit),
           df.cols)

\* the cleaning without the final dropna: the warm-up rows of the derived fields
\* stay in the table
clean_fred_data_KeepWarmup(df) ==
    LET r1 == [i \in 1..Len(df.rows) |-> [df.rows[i] EXCEPT !.date = ToMonthEnd(@)]]
        r3 == DropNa(Ffill(r1, FfillLimit), df.cols)
        c4 == IF "CPIAUCSL" \in df.cols THEN df.cols \cup {"cpi_inflation_yoy"} ELSE df.cols
        r4 == IF "CPIAUCSL" \in df.cols
              THEN [i \in 1..Len(r3) |->
                      r3[i] @@ ("cpi_inflation_yoy" :> PctChange(r3, "CPIAUCSL", YoYPeriods, i))]
              ELSE r3
        c5 == IF "FEDFUNDS" \in df.cols
              THEN c4 \cup {"FEDFUNDS_lag1", "FEDFUNDS_lag3"} ELSE c4
        r5 == IF "FEDFUNDS" \in df.cols
              THEN [i \in 1..Len(r4) |->
                      r4[i] @@ ("FEDFUNDS_lag1" :> Shift(r4, "FEDFUNDS", Lag1, i))
                            @@ ("FEDFUNDS_lag3" :> Shift(r4, "FEDFUNDS", Lag3, i))]
              ELSE r4
    IN  Table(c5, r5)

clean_fred_data(df) ==
    LET r1 == [i \in 1..Len(df.rows) |-> [df.rows[i] EXCEPT !.date = ToMonthEnd(@)]]
        r2 == Ffill(r1, FfillLimit)
        r3 == DropNa(r2, df.cols)
        c4 == IF "CPIAUCSL" \in df.cols THEN df.cols \cup {"cpi_inflation_yoy"} ELSE df.cols
        r4 == IF "CPIAUCSL" \in df.cols
              THEN [i \in 1..Len(r3) |->
                      r3[i] @@ ("cpi_inflation_yoy" :> PctChange(r3, "CPIAUCSL", YoYPeriods, i))]
              ELSE r3
        c5 == IF "FEDFUNDS" \in df.cols
              THEN c4 \cup {"FEDFUNDS_lag1", "FEDFUNDS_lag3"} ELSE c4
        r5 == IF "FEDFUNDS" \in df.cols
              THEN [i \in 1..Len(r4) |->
                      r4[i] @@ ("FEDFUNDS_lag1" :> Shift(r4, "FEDFUNDS", Lag1, i))
                            @@ ("FEDFUNDS_lag3" :> Shift(r4, "FEDFUNDS", Lag3, i))]
              ELSE r4
    IN  Table(c5, DropNa(r5, c5))

\* ----------------------------------------------------- merge_final_panel.py
\* pd.read_csv's default missing-value markers that a ticker could spell
NaValues == {"NA", "NULL", "NaN", "nan", "null", "None", "N/A", "n/a", ""}

\* df.to_csv(index=False) followed by pd.read_csv and pd.to_datetime(df['date']):
\* numbers, ISO dates and empty (missing) cells come back as they were, a string
\* that spells a missing-value marker comes back missing
ReadCsv(file) ==
    Table(file.cols,
          [i \in 1..Len(file.rows) |->
              [c \in DOMAIN file.rows[i] |->
                  LET x == file.rows[i][c]
                  IN  IF IsStr(x) /\ x.str \in NaValues THEN NaN ELSE x]])

\* load_processed_data, one file: the table, or None and a message
load_processed_data(file, name) ==
    IF file = NoFile
    THEN [df |-> None, msgs |-> {name \o " data not found"}]
    ELSE [df |-> ReadCsv(file), msgs |-> {}]

\* a test that lets main go on with one table loaded
BothLoadedEither(r, f) == r # None \/ f # None

\* main: if reit_df is not None and fred_df is not None
BothLoaded(r, f) == r # None /\ f # None

align_temporal_structure(df) ==
    IF df = None THEN None
    ELSE Table(df.cols,
               [i \in 1..Len(df.rows) |-> [df.rows[i] EXCEPT !.date = ToMonthEnd(@)]])

IndCols(fred) == fred.cols \ {"date"}

\* the right rows whose key equals the left row's, in the right table's order
MatchRows(e, frows) ==
    PickFrom(frows, {j \in 1..Len(frows) : frows[j].date = e.date}, 1)

JoinRow(e, f, indcols) ==
    [c \in (DOMAIN e) \cup indcols |-> IF c \in DOMAIN e THEN e[c] ELSE f[c]]

NaRow(e, indcols) ==
    [c \in (DOMAIN e) \cup indcols |-> IF c \in DOMAIN e THEN e[c] ELSE NaN]

RECURSIVE LeftJoinRows(_, _, _, _)
LeftJoinRows(lrows, frows, indcols, i) ==
    IF i > Len(lrows) THEN <<>>
    ELSE LET ms == MatchRows(lrows[i], frows)
             out == IF Len(ms) = 0 THEN <<NaRow(lrows[i], indcols)>>
                    ELSE [k \in 1..Len(ms) |-> JoinRow(lrows[i], ms[k], indcols)]
         IN  out \o LeftJoinRows(lrows, frows, indcols, i + 1)

\* an inner join: a left row without a match is dropped
RECURSIVE InnerJoinRows(_, _, _, _)
InnerJoinRows(lrows, frows, indcols, i) ==
    IF i > Len(lrows) THEN <<>>
    ELSE LET ms == MatchRows(lrows[i], frows)
         IN  [k \in 1..Len(ms) |-> JoinRow(lrows[i], ms[k], indcols)]
             \o InnerJoinRows(lrows, frows, indcols, i + 1)

\* pd.merge with how='inner'
PdMergeInner(reit, fred) ==
    Table(reit.cols \cup IndCols(fred),
          InnerJoinRows(reit.rows, fred.rows, IndCols(fred), 1))

\* pd.merge(reit_df, fred_df, on='date', how='left')
PdMerge(reit, fred) ==
    Table(reit.cols \cup IndCols(fred),
          LeftJoinRows(reit.rows, fred.rows, IndCols(fred), 1))

\* merge_datasets: the panel and what it prints about the row count
merge_datasets(reit, fred) ==
    IF reit = None \/ fred = None
    THEN [panel |-> None, msgs |-> {"Cannot merge: missing data"}]
    ELSE LET initial_reit_rows == Len(reit.rows)
             p == PdMerge(reit, fred)
             rows_lost == initial_reit_rows - Len(p.rows)
         IN  [panel |-> p,
              msgs |-> IF rows_lost > 0 THEN {"Rows lost"} ELSE {"No data loss"}]

\* validate_merge_integrity: what it prints
validate_merge_integrity(p) ==
    LET n == Len(p.rows)
        n_tickers == Cardinality({p.rows[i].ticker : i \in 1..n} \ {NaN})
        n_months == Cardinality({p.rows[i].date : i \in 1..n} \ {NaN})
    IN  [rows |-> n,
         missing |-> [c \in {d \in p.cols : \E i \in 1..n : IsNaN(p.rows[i][d])} |->
                         Cardinality({i \in 1..n : IsNaN(p.rows[i][c])})],
         n_tickers |-> n_tickers,
         n_months |-> n_months,
         expected_obs |-> n_tickers * n_months,
         imbalance |-> n_tickers * n_months - n]

DateLess(a, b) == a.m < b.m \/ (a.m = b.m /\ a.d < b.d)

\* the order of sort_values(['ticker', 'date'])
RowLess(a, b) ==
    \/ TickerRank(a.ticker.str) < TickerRank(b.ticker.str)
    \/ a.ticker = b.ticker /\ DateLess(a.date, b.date)

\* one row put into a sorted sequence, after the rows it does not precede
RECURSIVE Insert(_, _)
Insert(r, sorted) ==
    IF sorted = <<>> THEN <<r>>
    ELSE IF RowLess(r, Head(sorted)) THEN <<r>> \o sorted
    ELSE <<Head(sorted)>> \o Insert(r, Tail(sorted))

RECURSIVE SortRows(_, _)
SortRows(rows, n) ==
    IF n = 0 THEN <<>> ELSE Insert(rows[n], SortRows(rows, n - 1))

\* the panel left in the order of the merge
NoSortValues(p) == Table(p.cols, p.rows)

\* panel.sort_values(['ticker', 'date']).reset_index(drop=True)
SortValues(p) == Table(p.cols, SortRows(p.rows, Len(p.rows)))

RECURSIVE SumOf(_, _, _)
SumOf(rows, c, i) ==
    IF i > Len(rows) THEN 0
    ELSE (IF IsNum(rows[i][c]) THEN rows[i][c].num ELSE 0) + SumOf(rows, c, i + 1)

\* panel.describe(): count, sum (for the mean), min and max of each numeric
\* column (the standard deviation and the quartiles are left out); a missing
\* value is not counted
Describe(p) ==
    [c \in p.cols \ {"ticker", "date"} |->
        LET vals == {p.rows[i][c].num : i \in {j \in 1..Len(p.rows) : IsNum(p.rows[j][c])}}
        IN  [count |-> Cardinality({i \in 1..Len(p.rows) : ~IsNaN(p.rows[i][c])}),
             sum |-> SumOf(p.rows, c, 1),
             min |-> IF vals = {} THEN NaN ELSE Num(CHOOSE v \in vals : \A w \in vals : v <= w),
             max |-> IF vals = {} THEN NaN ELSE Num(CHOOSE v \in vals : \A w \in vals : v >= w)]]

\* ------------------------------------------------------------------ inputs
\* the calendar months of the inputs: January and February 2020
Months == {1, 2}

RawTickers == {NaN, Str("aaa"), Str("BBB")}
\* a missing date, an unparseable one, one mid-month date and every month-end
RawDates ==
    {NaN, Str("not a date"), Date(1, 15)}
    \cup {Date(m, DaysInMonth(m)) : m \in Months}
RawReturns == {NaN, Str("abc"), Num(5), Num(600), Num(-150)}
RawReitRows == [ticker : RawTickers, date : RawDates, usdret : RawReturns]
RawReitTables ==
    {Table(ReitCols, rows) : rows \in UNION {[1..n -> RawReitRows] : n \in 0..MaxReitRows}}

\* a raw indicator table holds one series; row i is dated in the month chosen for
\* it, on day 1, 8, 15, ... (monthly or finer, in any order), and holds the value
\* i or nothing
SeriesChoices == {"UNRATE", "FEDFUNDS", "CPIAUCSL"}
FredDay(i) == 1 + 7 * (i - 1)
RawFredTable(s, months, present) ==
    Table({"date", s},
          [i \in DOMAIN months |->
              ("date" :> Date(months[i], FredDay(i)))
              @@ (s :> IF present[i] THEN Num(i) ELSE NaN)])
RawFredTables ==
    {RawFredTable(s, sh[1], sh[2]) :
        s \in SeriesChoices,
        sh \in UNION {[1..n -> Months] \X [1..n -> BOOLEAN] : n \in 0..MaxFredRows}}

\* monthly indicator tables, as pd.DataFrame(data_dict).reset_index() builds them
\* from two series: the rows are in date order, one per month in which a series
\* has an observation.  The first row is January 2020 and each later row is one
\* month (steps[i] = 1) or two months (a month without a row, steps[i] = 2) after
\* the row before it.  MORTGAGE30US is observed in every row (its value in row i
\* is 10 * i); series s is observed in the rows of present (its value is i).
RECURSIVE MonthAt(_, _)
MonthAt(steps, i) == IF i = 1 THEN 1 ELSE MonthAt(steps, i - 1) + steps[i - 1]

MonthlyFredTable(s, n, steps, present) ==
    Table({"date", s, "MORTGAGE30US"},
          [i \in 1..n |->
              ("date" :> Date(MonthAt(steps, i), 1))
              @@ (s :> IF present[i] THEN Num(i) ELSE NaN)
              @@ ("MORTGAGE30US" :> Num(10 * i))])

MonthlyFredTables ==
    UNION {{MonthlyFredTable(s, n, sh[1], sh[2]) :
               s \in {"UNRATE", "FEDFUNDS"},
               sh \in [1..(n - 1) -> {1, 2}] \X [1..n -> BOOLEAN]} :
           n \in 1..MaxLongRows}

\* CPIAUCSL tables long enough for pct_change(12): 13 or 14 rows, at most one
\* month without a row (after row k), and CPIAUCSL observed in every row or in
\* every row but the third to the fifth
CpiTables ==
    UNION {{MonthlyFredTable("CPIAUCSL", n,
                             [i \in 1..(n - 1) |-> IF i = k THEN 2 ELSE 1],
                             [i \in 1..n |-> i \notin gap]) :
               k \in 0..(n - 1),
               gap \in {{}, (FfillLimit + 1)..(2 * FfillLimit + 1)}} :
           n \in {YoYPeriods + 1, YoYPeriods + 2}}

\* a raw entity table with one mid-month row of ticker aaa for each of the
\* months 1..k
MonthlyReitTable(k) ==
    Table(ReitCols,
          [m \in 1..k |-> [ticker |-> Str("aaa"), date |-> Date(m, 15), usdret |-> Num(5)]])

MonthlyReitTables == {MonthlyReitTable(k) : k \in {MaxLongRows, YoYPeriods + 2}}

\* ----------------------------------------------------------- state machine
\* pc: which program runs next.  reitFile, fredFile, finalFile, summaryFile: the
\* files data/processed/reit_data_clean.csv, data/processed/fred_data_clean.csv,
\* data/final/reit_fred_analysis_panel.csv and data/final/summary_statistics.csv.
\* reit_df, fred_df: the tables of merge_final_panel.main, as it leaves them.
\* merged: what merge_datasets returned.  panel: main's panel at its end (what
\* save_final_panel returned).  report: what validate_merge_integrity printed.
\* steps: the functions main called.  log: the messages printed.
\* fred_raw: the table fetch_all_fred_data returned to fetch_fred_data.main, kept
\* by the runs that compare the cleaned indicator table with it (None otherwise).
VARIABLES pc, reitFile, fredFile, reit_df, fred_df, merged, panel, report,
          finalFile, summaryFile, steps, log, fred_raw

vars == <<pc, reitFile, fredFile, reit_df, fred_df, merged, panel, report,
          finalFile, summaryFile, steps, log, fred_raw>>

Init ==
    /\ pc = "reit"
    /\ reitFile = NoFile
    /\ fredFile = NoFile
    /\ reit_df = None
    /\ fred_df = None
    /\ merged = None
    /\ panel = None
    /\ report = None
    /\ finalFile = NoFile
    /\ summaryFile = NoFile
    /\ steps = {}
    /\ log = {}
    /\ fred_raw = None

\* fetch_reit_data.main with the raw file present: load, clean, summarize, save
ReitMain ==
    /\ pc = "reit"
    /\ \E raw \in RawReitTables :
          reitFile' = clean_reit_data(raw)
    /\ log' = log \cup {"REIT data pipeline complete"}
    /\ pc' = "fred"
    /\ UNCHANGED <<fredFile, reit_df, fred_df, merged, panel, report,
                   finalFile, summaryFile, steps, fred_raw>>

\* fetch_reit_data.main with the raw file absent: load_reit_data returns None
ReitMainMissing ==
    /\ pc = "reit"
    /\ log' = log \cup {"REIT pipeline failed"}
    /\ pc' = "fred"
    /\ UNCHANGED <<reitFile, fredFile, reit_df, fred_df, merged, panel, report,
                   finalFile, summaryFile, steps, fred_raw>>

\* fetch_fred_data.main: fetch (never None), clean, summarize, save
FredMain ==
    /\ pc = "fred"
    /\ \E raw \in RawFredTables :
          fredFile' = clean_fred_data(raw)
    /\ log' = log \cup {"FRED data pipeline complete"}
    /\ pc' = "merge"
    /\ UNCHANGED <<reitFile, reit_df, fred_df, merged, panel, report,
                   finalFile, summaryFile, steps, fred_raw>>

\* the merge is started without fetch_fred_data having been run
FredNotRun ==
    /\ pc = "fred"
    /\ pc' = "merge"
    /\ UNCHANGED <<reitFile, fredFile, reit_df, fred_df, merged, panel, report,
                   finalFile, summaryFile, steps, log, fred_raw>>

\* merge_final_panel.main, both tables loaded: align, merge and, with a panel,
\* validate, save and summarise
MergeMain ==
    /\ pc = "merge"
    /\ LET r0 == load_processed_data(reitFile, "REIT")
           f0 == load_processed_data(fredFile, "FRED")
           r == align_temporal_structure(r0.df)
           f == align_temporal_structure(f0.df)
           res == merge_datasets(r, f)
       IN  /\ BothLoaded(r0.df, f0.df)
           /\ reit_df' = r
           /\ fred_df' = f
           /\ merged' = res.panel
           /\ IF res.panel # None
              THEN /\ report' = validate_merge_integrity(res.panel)
                   /\ finalFile' = SortValues(res.panel)
                   /\ panel' = SortValues(res.panel)
                   /\ summaryFile' = Describe(SortValues(res.panel))
                   /\ steps' = {"load_processed_data", "align_temporal_structure",
                                "merge_datasets", "validate_merge_integrity",
                                "save_final_panel", "create_data_summary"}
                   /\ log' = log \cup r0.msgs \cup f0.msgs \cup res.msgs
                                 \cup {"MERGE PIPELINE COMPLETE"}
              ELSE /\ steps' = {"load_processed_data", "align_temporal_structure",
                                "merge_datasets"}
                   /\ log' = log \cup r0.msgs \cup f0.msgs \cup res.msgs
                   /\ UNCHANGED <<panel, report, finalFile, summaryFile>>
    /\ pc' = "done"
    /\ UNCHANGED <<reitFile, fredFile, fred_raw>>

\* merge_final_panel.main's else branch: a table is None
MergeMainMissing ==
    /\ pc = "merge"
    /\ LET r0 == load_processed_data(reitFile, "REIT")
           f0 == load_processed_data(fredFile, "FRED")
       IN  /\ ~BothLoaded(r0.df, f0.df)
           /\ reit_df' = r0.df
           /\ fred_df' = f0.df
           /\ log' = log \cup r0.msgs \cup f0.msgs
                         \cup {"Pipeline failed: missing source data"}
    /\ steps' = {"load_processed_data"}
    /\ pc' = "failed"
    /\ UNCHANGED <<reitFile, fredFile, merged, panel, report, finalFile, summaryFile,
                   fred_raw>>

Next ==
    \/ ReitMain
    \/ ReitMainMissing
    \/ FredMain
    \/ FredNotRun
    \/ MergeMain
    \/ MergeMainMissing

Spec == Init /\ [][Next]_vars

\* ---- the pipeline on monthly tables, the raw indicator table kept
\* fetch_reit_data.main on a monthly raw file
ReitMainMonthly ==
    /\ pc = "reit"
    /\ \E raw \in MonthlyReitTables :
          reitFile' = clean_reit_data(raw)
    /\ log' = log \cup {"REIT data pipeline complete"}
    /\ pc' = "fred"
    /\ UNCHANGED <<fredFile, reit_df, fred_df, merged, panel, report,
                   finalFile, summaryFile, steps, fred_raw>>

\* fetch_fred_data.main on a monthly table: fetch, clean, summarize, save
FredMainMonthly ==
    /\ pc = "fred"
    /\ \E raw \in MonthlyFredTables \cup CpiTables :
          /\ fred_raw' = raw
          /\ fredFile' = clean_fred_data(raw)
    /\ log' = log \cup {"FRED data pipeline complete"}
    /\ pc' = "merge"
    /\ UNCHANGED <<reitFile, reit_df, fred_df, merged, panel, report,
                   finalFile, summaryFile, steps>>

NextMonthly ==
    \/ ReitMainMonthly
    \/ FredMainMonthly
    \/ MergeMain

SpecMonthly == Init /\ [][NextMonthly]_vars

\* ------------------------------------------------------------- properties
\* merge_datasets has returned a panel
AfterJoin == pc = "done" /\ merged # None

\* the indicator rows of the loaded indicator file that fall in e's month
MonthMatches(e) ==
    {j \in 1..Len(fredFile.rows) : fredFile.rows[j].date.m = e.date.m}

\* the merged rows that carry e's ticker, return and calendar month
PanelRowsOf(e) ==
    {k \in 1..Len(merged.rows) :
        /\ merged.rows[k].ticker = e.ticker
        /\ merged.rows[k].usdret = e.usdret
        /\ merged.rows[k].date.m = e.date.m}

AllIndicatorsMissing(p) == \A c \in IndCols(fredFile) : IsNaN(p[c])

\* C1: the panel merge_datasets returns has exactly as many rows as the entity
\* table it was given, whatever the indicator table holds.
RowCountInvariant ==
    AfterJoin => Len(merged.rows) = Len(reit_df.rows)

\* C2: for every row of the entity file, in calendar month m on whatever day: if
\* the indicator file has rows for m, each merged row of that entity row carries
\* exactly the values of an indicator row for m (and every indicator row for m is
\* carried by one); if it has none, every indicator field of it is missing.
JoinCorrectness ==
    AfterJoin =>
        \A i \in 1..Len(reitFile.rows) :
            LET e == reitFile.rows[i]
                M == MonthMatches(e)
                P == PanelRowsOf(e)
            IN  /\ P # {}
                /\ \A k \in P :
                      IF M = {} THEN AllIndicatorsMissing(merged.rows[k])
                      ELSE \E j \in M : \A c \in IndCols(fredFile) :
                              merged.rows[k][c] = fredFile.rows[j][c]
                /\ \A j \in M : \E k \in P : \A c \in IndCols(fredFile) :
                      merged.rows[k][c] = fredFile.rows[j][c]

\* a mid-month entity row met an indicator row of its month, and another entity
\* row found no indicator row
JoinCorrectnessWitness ==
    /\ AfterJoin
    /\ \E i \in 1..Len(reitFile.rows) :
          /\ reitFile.rows[i].date.d = 15
          /\ MonthMatches(reitFile.rows[i]) # {}
    /\ \E i \in 1..Len(reitFile.rows) : MonthMatches(reitFile.rows[i]) = {}

\* C3: whenever the panel's row count differs from the entity row count, rows
\* lost or rows duplicated, merge_datasets reports it and never prints
\* "No data loss".
DiscrepancySurfaced ==
    (AfterJoin /\ Len(merged.rows) # Len(reit_df.rows)) =>
        ("No data loss" \notin log /\ "Rows lost" \in log)

\* C4: every row of the entity file is in the panel with its ticker, month and
\* return unchanged, as often as the entity file holds it; a row whose month has
\* no indicator row is kept with every indicator field missing.
UnmatchedRetained ==
    AfterJoin =>
        \A i \in 1..Len(reitFile.rows) :
            LET e == reitFile.rows[i]
                same == {j \in 1..Len(reitFile.rows) :
                            /\ reitFile.rows[j].ticker = e.ticker
                            /\ reitFile.rows[j].usdret = e.usdret
                            /\ reitFile.rows[j].date.m = e.date.m}
            IN  /\ Cardinality(PanelRowsOf(e)) >= Cardinality(same)
                /\ MonthMatches(e) = {} =>
                      \E k \in PanelRowsOf(e) : AllIndicatorsMissing(merged.rows[k])

\* an entity row without an indicator row for its month went through a merge
\* against an indicator table that has rows, and the panel was saved
UnmatchedRetainedWitness ==
    /\ AfterJoin
    /\ Len(fredFile.rows) > 0
    /\ \E i \in 1..Len(reitFile.rows) : MonthMatches(reitFile.rows[i]) = {}
    /\ finalFile # NoFile

\* C5: after clean_reit_data and the month-end alignment, the entity table holds
\* at most one row per (ticker, calendar month).
EntityMonthUnique ==
    (pc = "done" /\ reit_df # None) =>
        \A i, j \in 1..Len(reit_df.rows) :
            (i < j) => ~(/\ reit_df.rows[i].ticker = reit_df.rows[j].ticker
                         /\ reit_df.rows[i].date = reit_df.rows[j].date)

\* C6: the table clean_fred_data returns has one row per calendar month, the
\* months strictly increasing from the first row to the last.
FredMonthsIncreasing ==
    fredFile # NoFile =>
        \A i \in 1..(Len(fredFile.rows) - 1) :
            fredFile.rows[i].date.m < fredFile.rows[i + 1].date.m

\* C7: every row clean_reit_data returns has a return that is a number between
\* -1.0 and 5.0 (in hundredths); a row with an unparseable return is not kept.
BoundedReturn ==
    reitFile # NoFile =>
        \A i \in 1..Len(reitFile.rows) :
            /\ IsNum(reitFile.rows[i].usdret)
            /\ reitFile.rows[i].usdret.num >= RetMin
            /\ reitFile.rows[i].usdret.num <= RetMax

\* rows in the order (ticker ascending, then date ascending)
InPanelOrder(rows) ==
    \A i, j \in 1..Len(rows) :
        (i < j) =>
            \/ TickerRank(rows[i].ticker.str) < TickerRank(rows[j].ticker.str)
            \/ /\ rows[i].ticker = rows[j].ticker
               /\ ~DateLess(rows[j].date, rows[i].date)

\* the same rows, each as often
SameRows(a, b) ==
    /\ Len(a) = Len(b)
    /\ \A i \in 1..Len(a) :
          Cardinality({k \in 1..Len(a) : a[k] = a[i]})
              = Cardinality({k \in 1..Len(b) : b[k] = a[i]})

\* C8: the table save_final_panel writes and returns holds the merged panel's
\* rows, none added or removed, ordered by ticker and within a ticker by month;
\* the summary statistics are computed from that same table.
SortedPanelPersisted ==
    (pc = "done" /\ finalFile # NoFile) =>
        /\ InPanelOrder(finalFile.rows)
        /\ SameRows(finalFile.rows, merged.rows)
        /\ finalFile.cols = merged.cols
        /\ panel = finalFile
        /\ summaryFile = Describe(finalFile)

\* a merged panel of two tickers that was out of order was saved and summarised
SortedPanelWitness ==
    /\ pc = "done"
    /\ finalFile # NoFile
    /\ summaryFile # NoFile
    /\ ~InPanelOrder(merged.rows)
    /\ \E i, j \in 1..Len(merged.rows) : merged.rows[i].ticker # merged.rows[j].ticker

\* C9: with either cleaned file absent the merge reports it, takes its failure
\* branch without calling align, merge, validate, save or summary, and writes
\* neither output file.
MissingInputHalts ==
    (reitFile = NoFile \/ fredFile = NoFile) =>
        /\ pc = "merge" => ENABLED MergeMainMissing
        /\ pc # "done"
        /\ pc = "failed" =>
              /\ steps = {"load_processed_data"}
              /\ "Pipeline failed: missing source data" \in log
              /\ reitFile = NoFile => "REIT data not found" \in log
              /\ fredFile = NoFile => "FRED data not found" \in log
        /\ merged = None
        /\ panel = None
        /\ report = None
        /\ finalFile = NoFile
        /\ summaryFile = NoFile

\* the merge ended in its failure branch with one file present and one absent
MissingInputWitness ==
    /\ pc = "failed"
    /\ reitFile # NoFile
    /\ fredFile = NoFile

\* C10: no cleaner persists a table without rows, and no final panel is written
\* from a merge input without rows.
EmptyResultAborts ==
    /\ reitFile # NoFile => Len(reitFile.rows) > 0
    /\ fredFile # NoFile => Len(fredFile.rows) > 0
    /\ finalFile # NoFile => (Len(reit_df.rows) > 0 /\ Len(fred_df.rows) > 0)

\* C11: in every row of the merged panel the indicator fields are all populated
\* or all missing, whatever indicator table the cleaner saved and the merge
\* loaded.
AllOrNothingIndicators ==
    AfterJoin =>
        \A k \in 1..Len(merged.rows) :
            \/ \A c \in IndCols(fred_df) : IsNaN(merged.rows[k][c])
            \/ \A c \in IndCols(fred_df) : ~IsNaN(merged.rows[k][c])

\* the panel of an indicator table with a derived field (three or more indicator
\* fields) holds a row with every indicator field populated and a row with every
\* indicator field missing
AllOrNothingWitness ==
    /\ AfterJoin
    /\ Cardinality(IndCols(fred_df)) >= 3
    /\ \E k \in 1..Len(merged.rows) : \A c \in IndCols(fred_df) : ~IsNaN(merged.rows[k][c])
    /\ \E k \in 1..Len(merged.rows) : \A c \in IndCols(fred_df) : IsNaN(merged.rows[k][c])

\* the rows of the cleaned indicator file dated in month m
CleanedAt(m) == {k \in 1..Len(fredFile.rows) : fredFile.rows[k].date.m = m}

\* the rows of column c observed before row i of the raw table
PriorObserved(rows, c, i) == {j \in 1..(i - 1) : ~IsNaN(rows[j][c])}

\* the last of a non-empty set of row numbers
LastOf(S) == CHOOSE j \in S : \A l \in S : l <= j

\* the number of calendar months without an observation of c in the gap that
\* holds row i: from the month after the prior observation to the month before
\* the next one, or to the table's last month when no observation follows
GapMonths(rows, c, i) ==
    LET j == LastOf(PriorObserved(rows, c, i))
        later == {h \in (i + 1)..Len(rows) : ~IsNaN(rows[h][c])}
    IN  IF later = {} THEN rows[Len(rows)].date.m - rows[j].date.m
        ELSE LET h == CHOOSE x \in later : \A l \in later : x <= l
             IN  rows[h].date.m - rows[j].date.m - 1

\* C12: in clean_fred_data a missing value of an indicator at month m is
\* replaced by the most recent prior observation of that indicator only if that
\* observation is at most 2 months before m and the gap is at most 2 months
\* long; a row of a longer gap is never filled (it is dropped), and a gap of at
\* most 2 months is filled completely.
BoundedForwardFill ==
    fred_raw # None =>
        \A c \in IndCols(fred_raw) : \A i \in 1..Len(fred_raw.rows) :
            IsNaN(fred_raw.rows[i][c]) =>
                LET rows == fred_raw.rows
                    m == rows[i].date.m
                    prior == PriorObserved(rows, c, i)
                IN  /\ CleanedAt(m) # {} =>
                          /\ prior # {}
                          /\ m - rows[LastOf(prior)].date.m <= FfillLimit
                          /\ GapMonths(rows, c, i) <= FfillLimit
                          /\ \A k \in CleanedAt(m) :
                                fredFile.rows[k][c] = rows[LastOf(prior)][c]
                    /\ (/\ fredFile.cols = fred_raw.cols
                        /\ prior # {}
                        /\ GapMonths(rows, c, i) <= FfillLimit) => CleanedAt(m) # {}

\* the rows of the table before the derived fields are added that are dated in
\* month m
FilledAt(m) ==
    {i \in 1..Len(FilledRows(fred_raw)) : FilledRows(fred_raw)[i].date.m = m}

\* C13: in every row of clean_fred_data's output for month m, FEDFUNDS_lag1 is
\* the FEDFUNDS value of calendar month m - 1, FEDFUNDS_lag3 that of month m - 3
\* and cpi_inflation_yoy the percent change of CPIAUCSL against month m - 12; a
\* row whose earlier month is not in the table is not in the output.
DerivedFieldsByCalendarMonth ==
    fred_raw # None =>
        \A k \in 1..Len(fredFile.rows) :
            LET r == fredFile.rows[k]
                m == r.date.m
                T == FilledRows(fred_raw)
            IN  /\ "FEDFUNDS" \in fred_raw.cols =>
                      /\ FilledAt(m - Lag1) # {}
                      /\ \A i \in FilledAt(m - Lag1) : r.FEDFUNDS_lag1 = T[i].FEDFUNDS
                      /\ FilledAt(m - Lag3) # {}
                      /\ \A i \in FilledAt(m - Lag3) : r.FEDFUNDS_lag3 = T[i].FEDFUNDS
                /\ "CPIAUCSL" \in fred_raw.cols =>
                      /\ FilledAt(m - YoYPeriods) # {}
                      /\ \A i \in FilledAt(m - YoYPeriods) :
                            r.cpi_inflation_yoy = Pct(r.CPIAUCSL.num, T[i].CPIAUCSL.num)

====
